---------------------------- MODULE Spec2Model ----------------------------
(***************************************************************************)
(* A model of app.py of the MITRE ATT&CK key generator: the function       *)
(* load_attack (flattening a STIX bundle into tactic/technique rows) and    *)
(* the "Process ATT&CK Data" button handler that fetches four documents,    *)
(* flattens both domains and derives the key and order columns.             *)
(*                                                                          *)
(* Python strings that are only compared for equality (types, STIX ids,     *)
(* shortnames, domain and kill-chain names) are TLA+ strings.  Strings that *)
(* are concatenated, searched or ordered (names and codes) are tuples of    *)
(* one-character strings, so that "+" is \o and "<" is the code-point       *)
(* lexicographic order.  A dictionary key that is absent is the value None, *)
(* which is what dict.get returns for it when no default is given, or the   *)
(* value Missing where dict.get is given a default.                         *)
(***************************************************************************)
EXTENDS Integers, Sequences, FiniteSets, TLC

VARIABLES
    \* ---- load_attack: arguments
    domain_name, stix_data, matrix_data, kill_chain_key,
    \* ---- load_attack: locals
    tactic_order, tactics_by_id, tactics_by_shortname, rows, df,
    \* ---- load_attack: position ("start", ..., "returned" | "raised")
    pc,
    \* ---- the button handler: position in the script
    hpc,
    \* ---- the four text inputs: label -> a filename was typed
    filenames,
    \* ---- the values fetch_json_or_error returned
    ent_stix_data, ent_matrix_data, ics_stix_data, ics_matrix_data,
    \* ---- label -> how the fetch went ("pending" before it)
    fetch_status,
    \* ---- the st.error messages shown so far
    errors,
    \* ---- the handler's data frames (sequences of rows)
    enterprise_df, ics_df, combined_df,
    \* ---- what the run has done: calls of load_attack, st.dataframe, st.download_button
    load_calls, displayed, download_offered

lvars == <<domain_name, stix_data, matrix_data, kill_chain_key,
           tactic_order, tactics_by_id, tactics_by_shortname, rows, df, pc>>

hvars == <<hpc, filenames, ent_stix_data, ent_matrix_data, ics_stix_data,
           ics_matrix_data, fetch_status, errors,
           enterprise_df, ics_df, combined_df, load_calls, displayed, download_offered>>

vars == <<lvars, hvars>>

-----------------------------------------------------------------------------
(* Python values *)

\* None: the result of dict.get for an absent key
None == "None"

\* the empty dict
EmptyDict == <<>>

\* d[k] = v
Put(d, k, v) == [x \in (DOMAIN d) \cup {k} |-> IF x = k THEN v ELSE d[x]]

\* an absent key whose value, when present, is a list or a str (a tuple here)
Missing == <<"<missing>">>

\* dict.get(key, default) for such a key
GetOr(v, default) == IF v = Missing THEN default ELSE v

\* x in <list or tuple>
In(x, s) == \E i \in 1..Len(s) : s[i] = x

\* ord(c) for the characters the model's names and codes are made of
Ord(c) ==
    CASE c = " " -> 32 [] c = "(" -> 40 [] c = ")" -> 41 [] c = "." -> 46
      [] c = "1" -> 49 [] c = "2" -> 50
      [] c = "A" -> 65 [] c = "B" -> 66 [] c = "C" -> 67 [] c = "E" -> 69
      [] c = "I" -> 73 [] c = "K" -> 75 [] c = "N" -> 78 [] c = "P" -> 80
      [] c = "Q" -> 81 [] c = "S" -> 83 [] c = "T" -> 84

\* a < b on str: lexicographic by code point, a proper prefix first
RECURSIVE StrLess(_, _)
StrLess(a, b) ==
    IF b = <<>> THEN FALSE
    ELSE IF a = <<>> THEN TRUE
    ELSE IF Head(a) = Head(b) THEN StrLess(Tail(a), Tail(b))
    ELSE Ord(Head(a)) < Ord(Head(b))

-----------------------------------------------------------------------------
(* load_attack, app.py lines 8-95 *)

\* lines 11-15: tactic_refs of the first x-mitre-matrix object, [] when none
RECURSIVE MatrixOrder(_)
MatrixOrder(objects) ==
    IF objects = <<>> THEN <<>>
    ELSE IF Head(objects).type = "x-mitre-matrix"
         THEN GetOr(Head(objects).tactic_refs, <<>>)
         ELSE MatrixOrder(Tail(objects))

\* lines 26-30 and 52-56: the external_id of the first reference whose
\* source_name is "mitre-attack" ("" when it has none), "" when none matches
RECURSIVE ResolveCodeLast(_)
ResolveCodeLast(refs) ==
    IF refs = <<>> THEN <<>>
    ELSE LET r == refs[Len(refs)] IN
         IF r.source_name = "mitre-attack" THEN GetOr(r.external_id, <<>>)
         ELSE ResolveCodeLast(SubSeq(refs, 1, Len(refs) - 1))

RECURSIVE ResolveCode(_)
ResolveCode(refs) ==
    IF refs = <<>> THEN <<>>
    ELSE IF Head(refs).source_name = "mitre-attack"
         THEN GetOr(Head(refs).external_id, <<>>)
         ELSE ResolveCode(Tail(refs))

\* lines 32-36: the entry stored in tactics_by_id
TacticByIdEntry(obj) ==
    [shortname   |-> obj.x_mitre_shortname,
     tactic_name |-> obj.name,
     tactic_id   |-> ResolveCode(obj.external_references)]

\* lines 37-40: the entry stored in tactics_by_shortname
TacticByShortnameEntry(obj) ==
    [tactic_name |-> obj.name,
     tactic_id   |-> ResolveCode(obj.external_references)]

\* lines 17-40: both lookups after the loop over the bundle's objects
RECURSIVE BuildTactics(_, _)
BuildTactics(objects, acc) ==
    IF objects = <<>> THEN acc
    ELSE LET obj == Head(objects) IN
         IF obj.type = "x-mitre-tactic"
         THEN BuildTactics(Tail(objects),
                [by_id        |-> Put(acc.by_id, obj.id, TacticByIdEntry(obj)),
                 by_shortname |-> Put(acc.by_shortname, obj.x_mitre_shortname,
                                      TacticByShortnameEntry(obj))])
         ELSE BuildTactics(Tail(objects), acc)

\* line 57: "." in tech_code
HasDot(code) == In(".", code)

\* lines 45-58: the object is passed over by the technique loop
SkipPatternNoDot(obj, domain) ==
    \/ obj.type # "attack-pattern"
    \/ obj.revoked \/ obj.x_mitre_deprecated
    \/ ~In(domain, obj.x_mitre_domains)
    \/ ResolveCode(obj.external_references) = <<>>

SkipPattern(obj, domain) ==
    \/ obj.type # "attack-pattern"
    \/ obj.revoked \/ obj.x_mitre_deprecated
    \/ ~In(domain, obj.x_mitre_domains)
    \/ ResolveCode(obj.external_references) = <<>>
    \/ HasDot(ResolveCode(obj.external_references))

\* lines 67-72 and 77-82: one row
Row(t, tech_name, tech_code) ==
    [tactic_name    |-> t.tactic_name,
     tactic_id      |-> t.tactic_id,
     technique_name |-> tech_name,
     technique_id   |-> tech_code]

\* lines 62-72: the rows appended for kill_chain_phases
RECURSIVE PhaseRows(_, _, _, _, _)
PhaseRows(phases, key, by_shortname, tech_name, tech_code) ==
    IF phases = <<>> THEN <<>>
    ELSE LET phase == Head(phases)
             short == phase.phase_name
             rest  == PhaseRows(Tail(phases), key, by_shortname, tech_name, tech_code)
         IN  IF In(phase.kill_chain_name, key) /\ short \in DOMAIN by_shortname
             THEN <<Row(by_shortname[short], tech_name, tech_code)>> \o rest
             ELSE rest

\* lines 74-82: the rows appended for x_mitre_tactics
RECURSIVE TacticListRows(_, _, _, _)
TacticListRows(shorts, by_shortname, tech_name, tech_code) ==
    IF shorts = <<>> THEN <<>>
    ELSE LET short == Head(shorts)
             rest  == TacticListRows(Tail(shorts), by_shortname, tech_name, tech_code)
         IN  IF short \in DOMAIN by_shortname
             THEN <<Row(by_shortname[short], tech_name, tech_code)>> \o rest
             ELSE rest

\* lines 44-82, one iteration: the rows one object appends
PatternRows(obj, domain, key, by_shortname) ==
    IF SkipPattern(obj, domain) THEN <<>>
    ELSE LET tech_code == ResolveCode(obj.external_references)
             tech_name == obj.name
         IN  PhaseRows(obj.kill_chain_phases, key, by_shortname, tech_name, tech_code)
             \o TacticListRows(obj.x_mitre_tactics, by_shortname, tech_name, tech_code)

\* lines 42-82: rows after the loop
RECURSIVE CollectRows(_, _, _, _)
CollectRows(objects, domain, key, by_shortname) ==
    IF objects = <<>> THEN <<>>
    ELSE PatternRows(Head(objects), domain, key, by_shortname)
         \o CollectRows(Tail(objects), domain, key, by_shortname)

\* DataFrame.drop_duplicates (keep="first") on a sequence of rows
KeepAll(s) == s

RECURSIVE DropDuplicates(_)
DropDuplicates(s) ==
    IF s = <<>> THEN <<>>
    ELSE LET init == DropDuplicates(SubSeq(s, 1, Len(s) - 1))
             last == s[Len(s)]
         IN  IF In(last, init) THEN init ELSE Append(init, last)

\* line 84: pd.DataFrame(rows).drop_duplicates().reset_index(drop=True);
\* a frame built from no rows has no columns
MakeFrame(rs) ==
    [columns |-> IF rs = <<>> THEN {}
                 ELSE {"tactic_name", "tactic_id", "technique_name", "technique_id"},
     rows    |-> DropDuplicates(rs)]

\* lines 87-90: tactic_name -> index in tactic_order, a later index replacing
\* an earlier one for the same name
RECURSIVE TacticSortOrder(_, _, _, _)
TacticSortOrder(order, i, by_id, acc) ==
    IF i > Len(order) THEN acc
    ELSE IF order[i] \in DOMAIN by_id
         THEN TacticSortOrder(order, i + 1, by_id,
                              Put(acc, by_id[order[i]].tactic_name, i - 1))
         ELSE TacticSortOrder(order, i + 1, by_id, acc)

\* line 92: the tactic_sort value of a row; NaN when the name is not mapped
\* (NaN is no index: the indices are 0, 1, ...)
NaN == -1
TacticSort(row, sort_order) ==
    IF row.tactic_name \in DOMAIN sort_order THEN sort_order[row.tactic_name] ELSE NaN

\* line 93: a sorts strictly before b under by=["tactic_sort","technique_name"],
\* ascending, NaN last
RowBeforeDesc(a, b, sort_order) ==
    LET ka == TacticSort(a, sort_order)
        kb == TacticSort(b, sort_order)
    IN  \/ ka # NaN /\ kb = NaN
        \/ ka # NaN /\ kb # NaN /\ ka < kb
        \/ ka = kb /\ StrLess(b.technique_name, a.technique_name)

RowBefore(a, b, sort_order) ==
    LET ka == TacticSort(a, sort_order)
        kb == TacticSort(b, sort_order)
    IN  \/ ka # NaN /\ kb = NaN
        \/ ka # NaN /\ kb # NaN /\ ka < kb
        \/ ka = kb /\ StrLess(a.technique_name, b.technique_name)

\* line 93: rows equal in both keys keep their order (sort_values on
\* several columns is a stable lexsort): a row goes after the rows it does
\* not precede
RECURSIVE InsertRow(_, _, _)
InsertRow(sorted, r, sort_order) ==
    IF sorted = <<>> THEN <<r>>
    ELSE LET last == sorted[Len(sorted)] IN
         IF RowBefore(r, last, sort_order)
         THEN Append(InsertRow(SubSeq(sorted, 1, Len(sorted) - 1), r, sort_order), last)
         ELSE Append(sorted, r)

RECURSIVE SortRows(_, _)
SortRows(rs, sort_order) ==
    IF rs = <<>> THEN <<>>
    ELSE InsertRow(SortRows(SubSeq(rs, 1, Len(rs) - 1), sort_order),
                   rs[Len(rs)], sort_order)

\* lines 92-95: df["tactic_name"] raises KeyError on a frame without that
\* column; otherwise the sorted frame is returned
RaisesKeyError(frame) == "tactic_name" \notin frame.columns

SortFrame(frame, order, by_id) ==
    [columns |-> frame.columns,
     rows    |-> SortRows(frame.rows, TacticSortOrder(order, 1, by_id, EmptyDict))]

\* load_attack as a whole: what a caller gets
LoadAttack(domain, stix, matrix, key) ==
    LET order   == MatrixOrder(matrix.objects)
        lookups == BuildTactics(stix.objects,
                                [by_id |-> EmptyDict, by_shortname |-> EmptyDict])
        frame   == MakeFrame(CollectRows(stix.objects, domain, key, lookups.by_shortname))
    IN  IF RaisesKeyError(frame)
        THEN [raised |-> TRUE, df |-> frame]
        ELSE [raised |-> FALSE, df |-> SortFrame(frame, order, lookups.by_id)]


-----------------------------------------------------------------------------
(* The inputs of load_attack that the model draws from *)

MaxTactics == 2    \* x-mitre-tactic objects in a bundle
MaxPatterns == 2   \* attack-pattern objects in a bundle
MaxRefs == 2       \* entries of one external_references list
MaxPhases == 2     \* entries of one kill_chain_phases / x_mitre_tactics list
MaxOrder == 2      \* entries of tactic_refs

SeqsUpTo(S, n) == UNION {[1..k -> S] : k \in 0..n}

Tactic(id, short, name, refs) ==
    [type |-> "x-mitre-tactic", id |-> id, x_mitre_shortname |-> short,
     name |-> name, external_references |-> refs]

Pattern(revoked, deprecated, domains, refs, name, phases, tactics) ==
    [type |-> "attack-pattern", revoked |-> revoked, x_mitre_deprecated |-> deprecated,
     x_mitre_domains |-> domains, external_references |-> refs, name |-> name,
     kill_chain_phases |-> phases, x_mitre_tactics |-> tactics]

Ref(source, id) == [source_name |-> source, external_id |-> id]
Phase(chain, short) == [kill_chain_name |-> chain, phase_name |-> short]
Matrix(refs) == [type |-> "x-mitre-matrix", tactic_refs |-> refs]
Bundle(objects) == [objects |-> objects]

K1 == <<"K", "1">>
K2 == <<"K", "2">>
T1 == <<"T", "1">>
T2 == <<"T", "2">>
T1Sub == <<"T", "1", ".", "1">>

ENT == "enterprise-attack"
ICS == "ics-attack"
\* lines 170 and 178: the kill-chain names the handler passes
EntKey == <<"mitre-attack", "mitre-enterprise-attack">>
IcsKey == <<"mitre-attack", "mitre-ics-attack">>

\* a plain top-level technique of the enterprise domain joined by one phase
Plain(name, code, short) ==
    Pattern(FALSE, FALSE, <<ENT>>, <<Ref("mitre-attack", code)>>, name,
            <<Phase("mitre-attack", short)>>, <<>>)

\* the code a tactic of the ordering family carries, by shortname
RefsOf(short) ==
    IF short = "s1" THEN <<Ref("mitre-attack", K1)>>
    ELSE <<Ref("capec", K1), Ref("mitre-attack", K2)>>

\* Family 1, tactics and matrix order: any tactic objects over two ids, two
\* shortnames and two names, any tactic_refs, a few technique lists
OrderTactics ==
    {Tactic(i, s, n, RefsOf(s)) : i \in {"x1", "x2"}, s \in {"s1", "s2"},
                                   n \in {<<"A">>, <<"B">>}}
OrderPatterns ==
    {<<Plain(<<"P">>, T1, "s1"), Plain(<<"Q">>, T2, "s2")>>,
     <<Plain(<<"Q">>, T2, "s1"), Plain(<<"P">>, T1, "s2")>>,
     <<Plain(<<"P", "Q">>, T1, "s1"), Plain(<<"P">>, T2, "s1")>>,
     <<Pattern(FALSE, FALSE, <<ENT>>, <<Ref("mitre-attack", T1)>>, <<"P">>,
               <<Phase("mitre-attack", "s2")>>, <<"s1">>),
       Plain(<<"Q">>, T2, "s2")>>}
OrderMatrices ==
    {Bundle(<<>>), Bundle(<<Matrix(Missing)>>)}
    \cup {Bundle(<<Matrix(r)>>) : r \in SeqsUpTo({"x1", "x2"}, MaxOrder) \ {<<>>}}
    \cup {Bundle(<<Matrix(<<"x2", "x1">>), Matrix(<<"x1", "x2">>)>>)}

InitOrder ==
    /\ \E ts \in SeqsUpTo(OrderTactics, MaxTactics), ps \in OrderPatterns :
           stix_data = Bundle(ts \o ps)
    /\ matrix_data \in OrderMatrices
    /\ domain_name = ENT
    /\ kill_chain_key = EntKey

\* Family 2, eligibility: any technique objects over the fields the technique
\* loop tests, one tactic to join
EligPatterns ==
    {Pattern(rv, dp, <<d>>, r, <<"P">>, <<Phase("mitre-attack", "s1")>>, <<>>) :
        rv \in BOOLEAN, dp \in BOOLEAN, d \in {ENT, ICS},
        r \in {<<>>, <<Ref("mitre-attack", T1)>>, <<Ref("mitre-attack", T1Sub)>>}}

InitEligibility ==
    /\ \E ps \in SeqsUpTo(EligPatterns, MaxPatterns) :
           stix_data = Bundle(<<Tactic("x1", "s1", <<"A">>, <<Ref("mitre-attack", K1)>>)>> \o ps)
    /\ matrix_data = Bundle(<<Matrix(<<"x1">>)>>)
    /\ domain_name \in {ENT, ICS}
    /\ kill_chain_key = IF domain_name = ENT THEN EntKey ELSE IcsKey

\* Family 3, associations: one technique with any kill_chain_phases and
\* x_mitre_tactics lists, shortnames present or absent, one or two domains, a
\* few tactic lists
AssocTactics ==
    LET a  == Tactic("x1", "s1", <<"A">>, <<Ref("mitre-attack", K1)>>)
        a2 == Tactic("x2", "s2", <<"A">>, <<Ref("mitre-attack", K1)>>)
        b  == Tactic("x2", None, <<"B">>, <<Ref("mitre-attack", K2)>>)
    IN  {<<>>, <<a>>, <<b>>, <<a, b>>, <<a, a2>>}
AssocPhases ==
    SeqsUpTo({Phase(c, s) : c \in {"mitre-attack", "mitre-ics-attack"},
                            s \in {"s1", None}}, MaxPhases)
AssocTacticLists == SeqsUpTo({"s1", "s2"}, MaxPhases)

InitAssociations ==
    /\ \E ts \in AssocTactics, ph \in AssocPhases, xt \in AssocTacticLists,
          ds \in {<<ENT>>, <<ICS, ENT>>, <<ICS>>} :
           stix_data = Bundle(ts \o <<Pattern(FALSE, FALSE, ds,
                                               <<Ref("mitre-attack", T1)>>, <<"P">>, ph, xt)>>)
    /\ matrix_data = Bundle(<<Matrix(<<"x1", "x2">>)>>)
    /\ domain_name = ENT
    /\ kill_chain_key \in {EntKey, IcsKey}

\* Family 4, references: one tactic and one technique with any
\* external_references lists
RefEntries(c1, c2) ==
    {Ref("mitre-attack", c1), Ref("mitre-attack", c2), Ref("mitre-attack", Missing),
     Ref("capec", c1)}

InitReferences ==
    /\ \E tr \in SeqsUpTo(RefEntries(K1, K2), MaxRefs),
          pr \in SeqsUpTo(RefEntries(T1, T2), MaxRefs) :
           stix_data = Bundle(<<Tactic("x1", "s1", <<"A">>, tr),
                                Pattern(FALSE, FALSE, <<ENT>>, pr, <<"P">>, <<>>, <<"s1">>)>>)
    /\ matrix_data = Bundle(<<>>)
    /\ domain_name = ENT
    /\ kill_chain_key = EntKey

-----------------------------------------------------------------------------
(* load_attack as a state machine *)

NoFrame == [columns |-> {}, rows |-> <<>>]

Labels == {"Enterprise STIX", "Enterprise Matrix", "ICS STIX", "ICS Matrix"}

\* the handler before the button is pressed
HandlerIdle ==
    /\ hpc = "idle"
    /\ ent_stix_data = Bundle(<<>>)
    /\ ent_matrix_data = Bundle(<<>>)
    /\ ics_stix_data = Bundle(<<>>)
    /\ ics_matrix_data = Bundle(<<>>)
    /\ fetch_status = [l \in Labels |-> "pending"]
    /\ errors = {}
    /\ enterprise_df = <<>>
    /\ ics_df = <<>>
    /\ combined_df = <<>>
    /\ load_calls = 0
    /\ displayed = FALSE
    /\ download_offered = FALSE

Init ==
    /\ InitOrder \/ InitEligibility \/ InitAssociations \/ InitReferences
    /\ HandlerIdle
    /\ filenames = [l \in Labels |-> FALSE]
    /\ tactic_order = <<>>
    /\ tactics_by_id = EmptyDict
    /\ tactics_by_shortname = EmptyDict
    /\ rows = <<>>
    /\ df = NoFrame
    /\ pc = "start"

\* lines 10-15
ExtractMatrixOrder ==
    /\ pc = "start"
    /\ tactic_order' = MatrixOrder(matrix_data.objects)
    /\ pc' = "tactics"
    /\ UNCHANGED hvars
    /\ UNCHANGED <<domain_name, stix_data, matrix_data, kill_chain_key,
                   tactics_by_id, tactics_by_shortname, rows, df>>

\* lines 17-40
BuildTacticLookups ==
    /\ pc = "tactics"
    /\ LET t == BuildTactics(stix_data.objects,
                             [by_id |-> tactics_by_id, by_shortname |-> tactics_by_shortname])
       IN  /\ tactics_by_id' = t.by_id
           /\ tactics_by_shortname' = t.by_shortname
    /\ pc' = "patterns"
    /\ UNCHANGED hvars
    /\ UNCHANGED <<domain_name, stix_data, matrix_data, kill_chain_key,
                   tactic_order, rows, df>>

\* lines 42-82
CollectTechniqueRows ==
    /\ pc = "patterns"
    /\ rows' = rows \o CollectRows(stix_data.objects, domain_name, kill_chain_key,
                                   tactics_by_shortname)
    /\ pc' = "frame"
    /\ UNCHANGED hvars
    /\ UNCHANGED <<domain_name, stix_data, matrix_data, kill_chain_key,
                   tactic_order, tactics_by_id, tactics_by_shortname, df>>

\* line 84
BuildFrame ==
    /\ pc = "frame"
    /\ df' = MakeFrame(rows)
    /\ pc' = "sort"
    /\ UNCHANGED hvars
    /\ UNCHANGED <<domain_name, stix_data, matrix_data, kill_chain_key,
                   tactic_order, tactics_by_id, tactics_by_shortname, rows>>

\* lines 86-95, the frame has its columns
SortAndReturn ==
    /\ pc = "sort"
    /\ ~RaisesKeyError(df)
    /\ df' = SortFrame(df, tactic_order, tactics_by_id)
    /\ pc' = "returned"
    /\ UNCHANGED hvars
    /\ UNCHANGED <<domain_name, stix_data, matrix_data, kill_chain_key,
                   tactic_order, tactics_by_id, tactics_by_shortname, rows>>

\* line 92, the frame has no column tactic_name: KeyError leaves load_attack
RaiseKeyError ==
    /\ pc = "sort"
    /\ RaisesKeyError(df)
    /\ pc' = "raised"
    /\ UNCHANGED hvars
    /\ UNCHANGED <<domain_name, stix_data, matrix_data, kill_chain_key,
                   tactic_order, tactics_by_id, tactics_by_shortname, rows, df>>

Next ==
    \/ ExtractMatrixOrder
    \/ BuildTacticLookups
    \/ CollectTechniqueRows
    \/ BuildFrame
    \/ SortAndReturn
    \/ RaiseKeyError

Spec == Init /\ [][Next]_vars

-----------------------------------------------------------------------------
(* The "Process ATT&CK Data" handler, app.py lines 128-226 *)

\* what fetch_json_or_error returns when it returns None
NoneValue == [none |-> TRUE]

\* lines 156-159: the order of the four fetches
FetchOrder == <<"Enterprise STIX", "Enterprise Matrix", "ICS STIX", "ICS Matrix">>

\* the fetches made so far and the label of the next one
FetchesDone == Cardinality({l \in Labels : fetch_status[l] # "pending"})

\* line 145: all([...]) over the four filenames
AllGiven(names) == \A l \in Labels : names[l]

\* line 162: None in [ent_stix_data, ent_matrix_data, ics_stix_data, ics_matrix_data]
AnyNoneButLast(values) == In(NoneValue, SubSeq(values, 1, Len(values) - 1))

AnyNone(values) == In(NoneValue, values)

\* lines 172 and 180: df["ENT/ICS"] = tag
RECURSIVE Tagged(_, _)
Tagged(rs, tag) ==
    IF rs = <<>> THEN <<>>
    ELSE <<Head(rs) @@ [ENT_ICS |-> tag]>> \o Tagged(Tail(rs), tag)

\* lines 185-187: TT_Key and the two display strings of one row
WithKeys(r) ==
    r @@ [TT_Key |-> r.ENT_ICS \o r.tactic_name \o r.technique_name,
          Tactics_With_Code |-> r.tactic_name \o <<" ", "(">> \o r.tactic_id \o <<")">>,
          Techniques_With_Code |->
              r.technique_name \o <<" ", "(">> \o r.technique_id \o <<")">>]

RECURSIVE KeyColumns(_)
KeyColumns(rs) ==
    IF rs = <<>> THEN <<>> ELSE <<WithKeys(Head(rs))>> \o KeyColumns(Tail(rs))

\* one column of a frame
RECURSIVE TacticsWithCode(_)
TacticsWithCode(rs) ==
    IF rs = <<>> THEN <<>>
    ELSE <<Head(rs).Tactics_With_Code>> \o TacticsWithCode(Tail(rs))

\* lines 189-190: the distinct "Tactics With Code" values, numbered from 1
UniqueTactics(rs) ==
    LET values == DropDuplicates(TacticsWithCode(rs))
    IN  [i \in 1..Len(values) |->
            [Tactics_With_Code |-> values[i], Tactics_Order |-> i]]

\* line 191: merge(..., on="Tactics With Code", how="left"): each left row, in
\* the left frame's order, with the columns of each right row of the same key
RECURSIVE MatchesOf(_, _)
MatchesOf(r, right) ==
    IF right = <<>> THEN <<>>
    ELSE IF Head(right).Tactics_With_Code = r.Tactics_With_Code
         THEN <<r @@ Head(right)>> \o MatchesOf(r, Tail(right))
         ELSE MatchesOf(r, Tail(right))

RECURSIVE MergeLeft(_, _)
MergeLeft(left, right) ==
    IF left = <<>> THEN <<>>
    ELSE (IF MatchesOf(Head(left), right) = <<>>
          THEN <<Head(left) @@ [Tactics_Order |-> NaN]>>
          ELSE MatchesOf(Head(left), right))
         \o MergeLeft(Tail(left), right)

\* line 193: groupby("Tactics With Code").cumcount() + 1, a running count kept
\* per key
RECURSIVE CumCountFromZero(_, _)
CumCountFromZero(rs, seen) ==
    IF rs = <<>> THEN <<>>
    ELSE LET key == Head(rs).Tactics_With_Code
             n   == IF key \in DOMAIN seen THEN seen[key] ELSE 0
         IN  <<Head(rs) @@ [Techniques_Order |-> n]>>
             \o CumCountFromZero(Tail(rs), Put(seen, key, n + 1))

RECURSIVE CumCount(_, _)
CumCount(rs, seen) ==
    IF rs = <<>> THEN <<>>
    ELSE LET key == Head(rs).Tactics_With_Code
             n   == IF key \in DOMAIN seen THEN seen[key] ELSE 0
         IN  <<Head(rs) @@ [Techniques_Order |-> n + 1]>>
             \o CumCount(Tail(rs), Put(seen, key, n + 1))

\* lines 195-211: the columns kept, under their final names
Renamed(r) ==
    [TT_Key |-> r.TT_Key, ENT_ICS |-> r.ENT_ICS,
     Tactics |-> r.tactic_name, Techniques |-> r.technique_name,
     Tactics_Order |-> r.Tactics_Order, Techniques_Order |-> r.Techniques_Order,
     Tactics_Code |-> r.tactic_id, Techniques_Code |-> r.technique_id,
     Tactics_With_Code |-> r.Tactics_With_Code,
     Techniques_With_Code |-> r.Techniques_With_Code]

RECURSIVE FinalColumns(_)
FinalColumns(rs) ==
    IF rs = <<>> THEN <<>> ELSE <<Renamed(Head(rs))>> \o FinalColumns(Tail(rs))

\* the documents a fetch may return
TacticA == Tactic("x1", "s1", <<"A">>, <<Ref("mitre-attack", K1)>>)
TacticB == Tactic("x2", "s2", <<"B">>, <<Ref("mitre-attack", K2)>>)
TacticA2 == Tactic("x1", "s1", <<"A">>, <<Ref("mitre-attack", K2)>>)

DomainPatterns(domain, chain) ==
    {Pattern(FALSE, FALSE, <<domain>>, <<Ref("mitre-attack", c)>>, n,
             <<Phase(chain, s)>>, <<>>) :
        c \in {T1, T2}, n \in {<<"P">>, <<"Q">>}, s \in {"s1", "s2"}}

EntStixDocs ==
    {Bundle(<<TacticA, TacticB>> \o ps) :
        ps \in SeqsUpTo(DomainPatterns(ENT, "mitre-enterprise-attack"), MaxPatterns)}
IcsStixDocs ==
    {Bundle(<<t>> \o ps) : t \in {TacticA, TacticA2},
        ps \in SeqsUpTo({Pattern(FALSE, FALSE, <<ICS>>, <<Ref("mitre-attack", T1)>>, n,
                                 <<>>, <<"s1">>) : n \in {<<"P">>, <<"Q">>}}, 1)}
EntMatrixDocs == {Bundle(<<Matrix(<<"x1", "x2">>)>>), Bundle(<<Matrix(<<"x2", "x1">>)>>)}
IcsMatrixDocs == {Bundle(<<Matrix(<<"x1">>)>>)}

Documents(label) ==
    CASE label = "Enterprise STIX" -> EntStixDocs
      [] label = "Enterprise Matrix" -> EntMatrixDocs
      [] label = "ICS STIX" -> IcsStixDocs
      [] label = "ICS Matrix" -> IcsMatrixDocs

HandlerInit ==
    /\ HandlerIdle
    /\ filenames \in [Labels -> BOOLEAN]
    /\ domain_name = ENT
    /\ stix_data = Bundle(<<>>)
    /\ matrix_data = Bundle(<<>>)
    /\ kill_chain_key = EntKey
    /\ tactic_order = <<>>
    /\ tactics_by_id = EmptyDict
    /\ tactics_by_shortname = EmptyDict
    /\ rows = <<>>
    /\ df = NoFrame
    /\ pc = "start"

\* lines 156-159: the value a fetch returns goes to its variable
Returned(label, value) ==
    /\ ent_stix_data' = IF label = "Enterprise STIX" THEN value ELSE ent_stix_data
    /\ ent_matrix_data' = IF label = "Enterprise Matrix" THEN value ELSE ent_matrix_data
    /\ ics_stix_data' = IF label = "ICS STIX" THEN value ELSE ics_stix_data
    /\ ics_matrix_data' = IF label = "ICS Matrix" THEN value ELSE ics_matrix_data

\* line 142: the button is pressed
PressButton ==
    /\ hpc = "idle"
    /\ hpc' = "names"
    /\ UNCHANGED <<filenames, fetch_status, errors, enterprise_df, ics_df,
                   combined_df, load_calls, displayed, download_offered>>
    /\ UNCHANGED <<ent_stix_data, ent_matrix_data, ics_stix_data, ics_matrix_data>>
    /\ UNCHANGED lvars

\* lines 145-147: a filename is missing: st.error and st.stop
RequireFilenames ==
    /\ hpc = "names"
    /\ ~AllGiven(filenames)
    /\ errors' = errors \cup {[label |-> "filenames", kind |-> "required"]}
    /\ hpc' = "stopped"
    /\ UNCHANGED <<filenames, fetch_status, enterprise_df, ics_df,
                   combined_df, load_calls, displayed, download_offered>>
    /\ UNCHANGED <<ent_stix_data, ent_matrix_data, ics_stix_data, ics_matrix_data>>
    /\ UNCHANGED lvars

\* lines 145-153: all four filenames are given
BuildUrls ==
    /\ hpc = "names"
    /\ AllGiven(filenames)
    /\ hpc' = "fetch"
    /\ UNCHANGED <<filenames, fetch_status, errors, enterprise_df, ics_df,
                   combined_df, load_calls, displayed, download_offered>>
    /\ UNCHANGED <<ent_stix_data, ent_matrix_data, ics_stix_data, ics_matrix_data>>
    /\ UNCHANGED lvars

\* lines 128-138 called from lines 156-159: the next fetch, with its outcomes:
\* status 200 and a JSON document, status 200 and the JSON value null, another
\* status, an exception of requests.get or resp.json
FetchJsonOrError ==
    /\ hpc = "fetch"
    /\ FetchesDone < Len(FetchOrder)
    /\ LET label == FetchOrder[FetchesDone + 1] IN
       \/ \E doc \in Documents(label) :
             /\ Returned(label, doc)
             /\ fetch_status' = [fetch_status EXCEPT ![label] = "ok"]
             /\ UNCHANGED errors
       \/ /\ Returned(label, NoneValue)
          /\ fetch_status' = [fetch_status EXCEPT ![label] = "null"]
          /\ UNCHANGED errors
       \/ /\ Returned(label, NoneValue)
          /\ fetch_status' = [fetch_status EXCEPT ![label] = "not_found"]
          /\ errors' = errors \cup {[label |-> label, kind |-> "not found"]}
       \/ /\ Returned(label, NoneValue)
          /\ fetch_status' = [fetch_status EXCEPT ![label] = "exception"]
          /\ errors' = errors \cup {[label |-> label, kind |-> "failed to fetch"]}
    /\ UNCHANGED <<hpc, filenames, enterprise_df, ics_df, combined_df, load_calls,
                   displayed, download_offered>>
    /\ UNCHANGED lvars

\* lines 161-163
StopIfAnyFailed ==
    /\ hpc = "fetch"
    /\ FetchesDone = Len(FetchOrder)
    /\ hpc' = IF AnyNone(<<ent_stix_data, ent_matrix_data, ics_stix_data, ics_matrix_data>>)
              THEN "stopped" ELSE "load_ent"
    /\ UNCHANGED <<filenames, fetch_status, errors, enterprise_df, ics_df,
                   combined_df, load_calls, displayed, download_offered>>
    /\ UNCHANGED <<ent_stix_data, ent_matrix_data, ics_stix_data, ics_matrix_data>>
    /\ UNCHANGED lvars

\* lines 166-172; an exception of load_attack ends the run
LoadEnterprise ==
    /\ hpc = "load_ent"
    /\ LET r == LoadAttack(ENT, ent_stix_data, ent_matrix_data, EntKey)
       IN  IF r.raised
           THEN hpc' = "exception" /\ UNCHANGED enterprise_df
           ELSE hpc' = "load_ics" /\ enterprise_df' = Tagged(r.df.rows, <<"E", "N", "T">>)
    /\ load_calls' = load_calls + 1
    /\ UNCHANGED <<filenames, fetch_status, errors, ics_df,
                   combined_df, displayed, download_offered>>
    /\ UNCHANGED <<ent_stix_data, ent_matrix_data, ics_stix_data, ics_matrix_data>>
    /\ UNCHANGED lvars

\* lines 174-180
LoadIcs ==
    /\ hpc = "load_ics"
    /\ LET r == LoadAttack(ICS, ics_stix_data, ics_matrix_data, IcsKey)
       IN  IF r.raised
           THEN hpc' = "exception" /\ UNCHANGED ics_df
           ELSE hpc' = "concat" /\ ics_df' = Tagged(r.df.rows, <<"I", "C", "S">>)
    /\ load_calls' = load_calls + 1
    /\ UNCHANGED <<filenames, fetch_status, errors, enterprise_df,
                   combined_df, displayed, download_offered>>
    /\ UNCHANGED <<ent_stix_data, ent_matrix_data, ics_stix_data, ics_matrix_data>>
    /\ UNCHANGED lvars

\* lines 182-187
ConcatAndKey ==
    /\ hpc = "concat"
    /\ combined_df' = KeyColumns(enterprise_df \o ics_df)
    /\ hpc' = "orders"
    /\ UNCHANGED <<filenames, fetch_status, errors, enterprise_df, ics_df,
                   load_calls, displayed, download_offered>>
    /\ UNCHANGED <<ent_stix_data, ent_matrix_data, ics_stix_data, ics_matrix_data>>
    /\ UNCHANGED lvars

\* lines 189-193
AssignOrders ==
    /\ hpc = "orders"
    /\ combined_df' = CumCount(MergeLeft(combined_df, UniqueTactics(combined_df)),
                               EmptyDict)
    /\ hpc' = "columns"
    /\ UNCHANGED <<filenames, fetch_status, errors, enterprise_df, ics_df,
                   load_calls, displayed, download_offered>>
    /\ UNCHANGED <<ent_stix_data, ent_matrix_data, ics_stix_data, ics_matrix_data>>
    /\ UNCHANGED lvars

\* lines 195-215
Display ==
    /\ hpc = "columns"
    /\ combined_df' = FinalColumns(combined_df)
    /\ displayed' = TRUE
    /\ hpc' = "export"
    /\ UNCHANGED <<filenames, fetch_status, errors, enterprise_df, ics_df,
                   load_calls, download_offered>>
    /\ UNCHANGED <<ent_stix_data, ent_matrix_data, ics_stix_data, ics_matrix_data>>
    /\ UNCHANGED lvars

\* lines 217-226
OfferDownload ==
    /\ hpc = "export"
    /\ download_offered' = TRUE
    /\ hpc' = "done"
    /\ UNCHANGED <<filenames, fetch_status, errors, enterprise_df, ics_df,
                   combined_df, load_calls, displayed>>
    /\ UNCHANGED <<ent_stix_data, ent_matrix_data, ics_stix_data, ics_matrix_data>>
    /\ UNCHANGED lvars

HandlerNext ==
    \/ PressButton
    \/ RequireFilenames
    \/ BuildUrls
    \/ FetchJsonOrError
    \/ StopIfAnyFailed
    \/ LoadEnterprise
    \/ LoadIcs
    \/ ConcatAndKey
    \/ AssignOrders
    \/ Display
    \/ OfferDownload

HandlerSpec == HandlerInit /\ [][HandlerNext]_vars

-----------------------------------------------------------------------------
(* What the claims speak of, stated over the inputs *)

Objects == stix_data.objects
TacticIdx == {k \in 1..Len(Objects) : Objects[k].type = "x-mitre-tactic"}
PatternIdx == {k \in 1..Len(Objects) : Objects[k].type = "attack-pattern"}
Chars(str) == {str[i] : i \in 1..Len(str)}
FrameRows == {df.rows[i] : i \in 1..Len(df.rows)}

\* the external_id of the first "mitre-attack" entry of a reference list
MitreIdx(refs) == {i \in 1..Len(refs) : refs[i].source_name = "mitre-attack"}
FirstMitreId(refs) ==
    IF MitreIdx(refs) = {} THEN <<>>
    ELSE LET first == CHOOSE i \in MitreIdx(refs) : \A j \in MitreIdx(refs) : i <= j
         IN  IF refs[first].external_id = Missing THEN <<>> ELSE refs[first].external_id

\* an attack-pattern that may contribute rows
Eligible(obj) ==
    /\ obj.type = "attack-pattern"
    /\ ~obj.revoked
    /\ ~obj.x_mitre_deprecated
    /\ domain_name \in Chars(obj.x_mitre_domains)
    /\ FirstMitreId(obj.external_references) # <<>>
    /\ "." \notin Chars(FirstMitreId(obj.external_references))

\* the tactic shortnames an attack-pattern names: the phase_name of the
\* phases of a listed kill chain, and the entries of x_mitre_tactics
NamedShortnames(obj) ==
    {obj.kill_chain_phases[i].phase_name : i \in
        {j \in 1..Len(obj.kill_chain_phases) :
            /\ obj.kill_chain_phases[j].kill_chain_name \in Chars(kill_chain_key)
            /\ obj.kill_chain_phases[j].phase_name # None}}
    \cup Chars(obj.x_mitre_tactics)

\* the tactic object that the lookup holds for a shortname: the last one
HeldForShortname(k) ==
    /\ k \in TacticIdx
    /\ \A j \in TacticIdx :
          Objects[j].x_mitre_shortname = Objects[k].x_mitre_shortname => j <= k

\* the row joining tactic object k to attack-pattern object p
JoinedRow(k, p) ==
    [tactic_name    |-> Objects[k].name,
     tactic_id      |-> FirstMitreId(Objects[k].external_references),
     technique_name |-> Objects[p].name,
     technique_id   |-> FirstMitreId(Objects[p].external_references)]

\* load_attack taken in steps ends as load_attack taken whole, which is how
\* the handler takes it
StepsAgreeWithLoadAttack ==
    pc \in {"returned", "raised"} =>
        LoadAttack(domain_name, stix_data, matrix_data, kill_chain_key)
            = [raised |-> (pc = "raised"), df |-> df]

\* C1: every returned row, and every row collected before, carries the name
\* and the resolved code of an eligible attack-pattern of the bundle, and an
\* attack-pattern that is not eligible appends no row.
C1_RowsFromEligiblePatterns ==
    /\ \A i \in 1..Len(rows) : \E p \in PatternIdx :
          /\ Eligible(Objects[p])
          /\ rows[i].technique_id = FirstMitreId(Objects[p].external_references)
          /\ rows[i].technique_name = Objects[p].name
    /\ pc = "returned" =>
          \A r \in FrameRows : \E p \in PatternIdx :
              /\ Eligible(Objects[p])
              /\ r.technique_id = FirstMitreId(Objects[p].external_references)
              /\ r.technique_name = Objects[p].name
              /\ r.technique_id # <<>> /\ "." \notin Chars(r.technique_id)
    /\ pc = "returned" =>
          \A p \in PatternIdx :
              ~Eligible(Objects[p]) =>
                  PatternRows(Objects[p], domain_name, kill_chain_key,
                              tactics_by_shortname) = <<>>

\* C1's case: a table is returned from a bundle that holds an eligible
\* attack-pattern and one whose only defect is a "." in its code
C1_Witness ==
    /\ pc = "returned"
    /\ df.rows # <<>>
    /\ \E p \in PatternIdx :
          /\ ~Eligible(Objects[p])
          /\ ~Objects[p].revoked /\ ~Objects[p].x_mitre_deprecated
          /\ domain_name \in Chars(Objects[p].x_mitre_domains)
          /\ "." \in Chars(FirstMitreId(Objects[p].external_references))

\* C2: the returned table holds no row twice.
C2_NoDuplicateRows ==
    pc = "returned" =>
        \A i, j \in 1..Len(df.rows) : i # j => df.rows[i] # df.rows[j]

\* C2's case: the collected rows held a row twice, from two tactic objects
\* that carry the same name and code
C2_Witness ==
    /\ pc = "returned"
    /\ \E i, j \in 1..Len(rows) : i # j /\ rows[i] = rows[j]
    /\ \E k, l \in TacticIdx :
          /\ k # l
          /\ Objects[k].x_mitre_shortname # Objects[l].x_mitre_shortname
          /\ Objects[k].name = Objects[l].name
          /\ FirstMitreId(Objects[k].external_references)
               = FirstMitreId(Objects[l].external_references)

\* the tactic objects a returned row may be the row of
RowTactics(r) ==
    {k \in TacticIdx :
        /\ HeldForShortname(k)
        /\ \E p \in PatternIdx :
              /\ Eligible(Objects[p])
              /\ r = JoinedRow(k, p)
              /\ \/ Objects[k].x_mitre_shortname \in NamedShortnames(Objects[p])
                 \/ /\ Objects[k].x_mitre_shortname = None
                    /\ \E i \in 1..Len(Objects[p].kill_chain_phases) :
                          Objects[p].kill_chain_phases[i].phase_name = None}

\* tactic_refs of the matrix object
MatrixRefs ==
    LET ms == {i \in 1..Len(matrix_data.objects) :
                  matrix_data.objects[i].type = "x-mitre-matrix"}
    IN  IF ms = {} THEN <<>>
        ELSE LET m == matrix_data.objects[CHOOSE i \in ms : \A j \in ms : i <= j]
             IN  IF m.tactic_refs = Missing THEN <<>> ELSE m.tactic_refs

\* the positions (0-based) of tactic object k in tactic_refs; Unranked when
\* it has none
Unranked == Len(MatrixRefs)
PositionsOf(k) ==
    LET ps == {i - 1 : i \in {j \in 1..Len(MatrixRefs) : MatrixRefs[j] = Objects[k].id}}
    IN  IF ps = {} THEN {Unranked} ELSE ps

\* r1 may stand right before r2 in (tactic position, technique_name) order
InOrder(r1, r2) ==
    \E k1 \in RowTactics(r1), k2 \in RowTactics(r2) :
        \E p1 \in PositionsOf(k1), p2 \in PositionsOf(k2) :
            \/ p1 < p2
            \/ p1 = p2 /\ ~StrLess(r2.technique_name, r1.technique_name)

\* C3: the returned rows ascend by (position of the row's tactic in
\* tactic_refs, technique_name), the rows of tactics without a position last.
C3_SortedByTacticPosition ==
    pc = "returned" =>
        \A i \in 1..(Len(df.rows) - 1) : InOrder(df.rows[i], df.rows[i + 1])

\* C4: the returned rows are exactly the rows joining an eligible
\* attack-pattern to the tactic held for a shortname it names.
C4_RowsAreTheNamedAssociations ==
    pc = "returned" =>
        FrameRows =
            {JoinedRow(k, p) : <<k, p>> \in
                {kp \in TacticIdx \X PatternIdx :
                    /\ HeldForShortname(kp[1])
                    /\ Eligible(Objects[kp[2]])
                    /\ Objects[kp[1]].x_mitre_shortname \in NamedShortnames(Objects[kp[2]])}}

\* C5: load_attack never raises.
C5_NeverRaises == pc # "raised"

\* C6: the tactic_id of every entry of both lookups is the external_id of
\* the first "mitre-attack" reference of the tactic object stored there ("" when
\* it has none), and so are the tactic_id and the technique_id of every row.
C6_FirstMitreReference ==
    /\ pc \notin {"start", "tactics"} =>
          /\ \A id \in DOMAIN tactics_by_id : \E k \in TacticIdx :
                /\ Objects[k].id = id
                /\ \A j \in TacticIdx : Objects[j].id = id => j <= k
                /\ tactics_by_id[id].tactic_id
                     = FirstMitreId(Objects[k].external_references)
          /\ \A s \in DOMAIN tactics_by_shortname : \E k \in TacticIdx :
                /\ Objects[k].x_mitre_shortname = s
                /\ HeldForShortname(k)
                /\ tactics_by_shortname[s].tactic_id
                     = FirstMitreId(Objects[k].external_references)
          /\ {Objects[k].id : k \in TacticIdx} = DOMAIN tactics_by_id
          /\ {Objects[k].x_mitre_shortname : k \in TacticIdx} = DOMAIN tactics_by_shortname
    /\ pc = "returned" =>
          \A r \in FrameRows :
              /\ \E k \in TacticIdx :
                    /\ HeldForShortname(k)
                    /\ r.tactic_name = Objects[k].name
                    /\ r.tactic_id = FirstMitreId(Objects[k].external_references)
              /\ \E p \in PatternIdx :
                    /\ r.technique_name = Objects[p].name
                    /\ r.technique_id = FirstMitreId(Objects[p].external_references)

\* C6's case: a row is returned for a tactic whose reference list holds two
\* "mitre-attack" entries with different external_ids
C6_Witness ==
    /\ pc = "returned"
    /\ \E r \in FrameRows, k \in TacticIdx :
          LET refs == Objects[k].external_references IN
          /\ r.tactic_id = FirstMitreId(refs)
          /\ \E i, j \in MitreIdx(refs) : i < j /\ refs[i].external_id # refs[j].external_id

\* C9: every returned row joins an attack-pattern to a tactic through a
\* shortname that both of them have.
C9_MissingShortnameNeverJoins ==
    pc = "returned" =>
        \A r \in FrameRows : \E k \in TacticIdx, p \in PatternIdx :
            /\ Eligible(Objects[p])
            /\ Objects[k].x_mitre_shortname # None
            /\ Objects[k].x_mitre_shortname \in NamedShortnames(Objects[p])
            /\ r = JoinedRow(k, p)

-----------------------------------------------------------------------------
(* The claims about the handler *)

Failed(l) == fetch_status[l] \in {"not_found", "exception"}
ErrorShownFor(l) == \E e \in errors : e.label = l

\* C7: load_attack is called and a table shown or offered only after all four
\* fetches succeeded; a failed fetch has its error message shown, and once
\* the four fetches are over the run has stopped without calling load_attack,
\* showing a table or offering a download.
C7_AllFourFetchesOrNothing ==
    /\ (load_calls > 0 \/ displayed \/ download_offered
          \/ hpc \in {"load_ent", "load_ics", "concat", "orders", "columns",
                      "export", "done", "exception"})
          => \A l \in Labels : fetch_status[l] = "ok"
    /\ \A l \in Labels : Failed(l) => ErrorShownFor(l)
    /\ (\E l \in Labels : Failed(l)) =>
          /\ hpc \in {"fetch", "stopped"}
          /\ hpc = "fetch" => FetchesDone < Len(FetchOrder) \/ ENABLED StopIfAnyFailed
          /\ load_calls = 0 /\ ~displayed /\ ~download_offered
          /\ combined_df = <<>>

\* C7's case: three fetches succeeded, the last one failed, and the run stopped
C7_Witness ==
    /\ hpc = "stopped"
    /\ \A i \in 1..3 : fetch_status[FetchOrder[i]] = "ok"
    /\ Failed(FetchOrder[4])

\* the rows of the concatenated table, before and after the order columns
HasOrders == hpc \in {"columns", "export", "done"}
Concatenated == enterprise_df \o ics_df
TWC(i) == combined_df[i].Tactics_With_Code
FirstRowOf(i) == CHOOSE j \in 1..i : TWC(j) = TWC(i) /\ \A h \in 1..(j - 1) : TWC(h) # TWC(i)

\* C8: Tactics_Order is the 1-based rank of the row's "Tactics With Code"
\* among the distinct values in order of first appearance, Techniques_Order
\* counts 1, 2, ... the rows of one value in row order, and the rows are
\* those of the concatenation, in its order.
C8_OrderColumns ==
    HasOrders =>
        /\ Len(combined_df) = Len(Concatenated)
        /\ \A i \in 1..Len(combined_df) :
              /\ combined_df[i].Tactics_Order
                   = Cardinality({TWC(j) : j \in 1..FirstRowOf(i)})
              /\ combined_df[i].Techniques_Order
                   = Cardinality({j \in 1..i : TWC(j) = TWC(i)})
              /\ combined_df[i].ENT_ICS = Concatenated[i].ENT_ICS
              /\ combined_df[i].Tactics_With_Code
                   = Concatenated[i].tactic_name \o <<" ", "(">>
                       \o Concatenated[i].tactic_id \o <<")">>
              /\ combined_df[i].Techniques_With_Code
                   = Concatenated[i].technique_name \o <<" ", "(">>
                       \o Concatenated[i].technique_id \o <<")">>

\* C8's case: a "Tactics With Code" value comes back after another one (an
\* ICS tactic that the enterprise table has too), and a value has two rows
C8_Witness ==
    /\ hpc = "done"
    /\ \E i, j, k \in 1..Len(combined_df) :
          i < j /\ j < k /\ TWC(i) = TWC(k) /\ TWC(j) # TWC(i)
    /\ \E i \in 1..Len(combined_df) : combined_df[i].Tactics_Order = 2
    /\ \E i \in 1..Len(combined_df) : combined_df[i].Techniques_Order = 2

\* C10: no two rows of the final table have the same TT_Key.
C10_KeyIsUnique ==
    hpc \in {"orders", "columns", "export", "done"} =>
        \A i, j \in 1..Len(combined_df) :
            i # j => combined_df[i].TT_Key # combined_df[j].TT_Key

=============================================================================
